---- MODULE Spec2Model ----
(***************************************************************************)
(* Model of src/TK/main.py: the question-bank parser (QuestionBank.        *)
(* load_from_file / _parse_question), the fuzzy matcher and the three      *)
(* search modes, and the session state of ExamApp that is built on them.   *)
(*                                                                         *)
(* A Python str is modelled as a sequence of one-character strings, so     *)
(* that the regular expressions, strip(), lower() and the `in` operator    *)
(* are computed on the flat text exactly as the code computes them.        *)
(***************************************************************************)
EXTENDS Integers, Sequences, FiniteSets, TLC

VARIABLES
    fs,                   \* the files on disk: path -> text, or Unreadable
    images,               \* names of the files that exist in the media directory
    questions,            \* QuestionBank.questions
    photo_dir,            \* QuestionBank.photo_dir
    current_questions,    \* ExamApp.current_questions
    current_index,        \* ExamApp.current_index
    exam_mode,            \* ExamApp.exam_mode
    search_mode,          \* ExamApp.search_mode
    before_search_state,  \* ExamApp.before_search_state
    arg,                  \* the input of the function under study (pure-function specifications)
    call                  \* the last call made: its name, arguments and result

vars == <<fs, images, questions, photo_dir, current_questions, current_index,
          exam_mode, search_mode, before_search_state, arg, call>>

(***************************************************************************)
(* Python str primitives                                                   *)
(***************************************************************************)
NL == "\n"
SP == " "

Upper == <<"A","B","C","D","E","F","G","H","I","J","K","L","M",
           "N","O","P","Q","R","S","T","U","V","W","X","Y","Z">>
Lower == <<"a","b","c","d","e","f","g","h","i","j","k","l","m",
           "n","o","p","q","r","s","t","u","v","w","x","y","z">>

\* str.lower() of one character
lower_char(c) ==
    IF \E i \in DOMAIN Upper : Upper[i] = c
    THEN Lower[CHOOSE i \in DOMAIN Upper : Upper[i] = c]
    ELSE c

\* str.lower()
lower(s) == [i \in 1..Len(s) |-> lower_char(s[i])]

\* str.isspace() of one character, over the characters of the model
is_space(c) == c \in {SP, NL, "\t"}

\* str.strip(): drop leading and trailing whitespace
RECURSIVE lstrip(_)
lstrip(s) == IF s # <<>> /\ is_space(Head(s)) THEN lstrip(Tail(s)) ELSE s

RECURSIVE rstrip(_)
rstrip(s) ==
    IF s # <<>> /\ is_space(s[Len(s)]) THEN rstrip(SubSeq(s, 1, Len(s) - 1)) ELSE s

strip(s) == rstrip(lstrip(s))

\* s.startswith(p, i) with i counted from 1
starts_at(s, i, p) ==
    /\ i + Len(p) - 1 <= Len(s)
    /\ SubSeq(s, i, i + Len(p) - 1) = p

\* the Python `p in s` of two strings
str_in(p, s) == \E i \in 1..(Len(s) - Len(p) + 1) : starts_at(s, i, p)

(***************************************************************************)
(* QuestionBank._fuzzy_match                                               *)
(***************************************************************************)
\* normalize_char without `c_lower = c.lower()`
normalize_char_cased(c) ==
    IF c \in {"l", "i", "1"} THEN "i"
    ELSE IF c \in {"o", "0"} THEN "0"
    ELSE c

normalize_char(c) ==
    LET c_lower == lower_char(c) IN
    IF c_lower \in {"l", "i", "1"} THEN "i"
    ELSE IF c_lower \in {"o", "0"} THEN "0"
    ELSE c_lower

normalize(s) == [i \in 1..Len(s) |-> normalize_char(s[i])]

\* fuzzy_match without the pass over the confusable characters
fuzzy_match_exact(pattern, text) ==
    IF pattern = <<>> \/ text = <<>> THEN FALSE
    ELSE str_in(lower(pattern), lower(text))

fuzzy_match(pattern, text) ==
    IF pattern = <<>> \/ text = <<>> THEN FALSE
    ELSE IF str_in(lower(pattern), lower(text)) THEN TRUE
    ELSE IF str_in(normalize(pattern), normalize(text)) THEN TRUE
    ELSE FALSE

(***************************************************************************)
(* The regular expressions of the parser                                   *)
(***************************************************************************)
\* the three characters of the tag [X]
tag(X) == <<"[", X, "]">>

\* the longest run of characters other than newline that starts at index i:
\* the group ([^\n]+) of the field patterns, when it is not empty
RECURSIVE run_to_eol(_, _)
run_to_eol(s, i) ==
    IF i > Len(s) \/ s[i] = NL THEN <<>>
    ELSE <<s[i]>> \o run_to_eol(s, i + 1)

\* the positions where re.search(r'\[X\]([^\n]+)', text) can match: the tag
\* followed by at least one character that is not a newline
field_positions(X, text) ==
    {i \in 1..Len(text) :
        /\ starts_at(text, i, tag(X))
        /\ i + 3 <= Len(text)
        /\ text[i + 3] # NL}

\* field_search taking the rightmost match
field_search_last(X, text) ==
    LET ps == field_positions(X, text) IN
    IF ps = {} THEN <<>>
    ELSE LET i == CHOOSE p \in ps : \A r \in ps : r <= p
         IN  <<run_to_eol(text, i + 3)>>

\* re.search(r'\[X\]([^\n]+)', text): <<>> when there is no match, else
\* <<group(1)>> of the leftmost match
field_search(X, text) ==
    LET ps == field_positions(X, text) IN
    IF ps = {} THEN <<>>
    ELSE LET i == CHOOSE p \in ps : \A r \in ps : p <= r
         IN  <<run_to_eol(text, i + 3)>>

\* where the lookahead (?=\[J\]|$) holds: before a tag [J], at the end of
\* the text, or before a newline that ends the text
chunk_stop(content, e) ==
    \/ starts_at(content, e, tag("J"))
    \/ e = Len(content) + 1
    \/ e = Len(content) /\ content[e] = NL

\* re.findall(r'\[J\](.*?)(?=\[J\]|$)', content, re.DOTALL), scanning from pos
RECURSIVE find_chunks(_, _)
find_chunks(content, pos) ==
    LET starts == {i \in pos..Len(content) : starts_at(content, i, tag("J"))} IN
    IF starts = {} THEN <<>>
    ELSE LET i == CHOOSE p \in starts : \A r \in starts : p <= r
             stops == {e \in (i + 3)..(Len(content) + 1) : chunk_stop(content, e)}
             e == CHOOSE p \in stops : \A r \in stops : p <= r
         IN  <<SubSeq(content, i + 3, e - 1)>> \o find_chunks(content, e)

(***************************************************************************)
(* os.path on the media directory                                          *)
(***************************************************************************)
\* os.path.splitext(name)[0] of a name without directory separators: the
\* name up to its last dot, unless only dots precede that dot
splitext_root(name) ==
    LET dots == {i \in 1..Len(name) : name[i] = "."} IN
    IF dots = {} THEN name
    ELSE LET d == CHOOSE p \in dots : \A r \in dots : r <= p IN
         IF \E k \in 1..(d - 1) : name[k] # "." THEN SubSeq(name, 1, d - 1)
         ELSE name

Extensions == << <<".","j","p","g">>, <<".","p","n","g">>, <<".","j","p","e","g">>,
                 <<".","J","P","G">>, <<".","P","N","G">>, <<".","J","P","E","G">> >>

\* os.path.exists(os.path.join(abs_photo_dir, name)): existing holds the
\* names present in the directory, and the empty name when the directory
\* itself exists
path_exists(existing, name) == name \in existing

\* resolve_image keeping the last extension that exists, without the break
resolve_image_last_hit(existing, image_filename) ==
    IF path_exists(existing, image_filename) THEN <<image_filename>>
    ELSE LET base_name == splitext_root(image_filename)
             hits == {k \in DOMAIN Extensions :
                         path_exists(existing, base_name \o Extensions[k])}
         IN  IF hits = {} THEN <<>>
             ELSE <<base_name \o Extensions[CHOOSE k \in hits : \A r \in hits : r <= k]>>

\* lines 125-147: the path the [F] value resolves to, <<>> for None
resolve_image(existing, image_filename) ==
    IF path_exists(existing, image_filename) THEN <<image_filename>>
    ELSE LET base_name == splitext_root(image_filename)
             hits == {k \in DOMAIN Extensions :
                         path_exists(existing, base_name \o Extensions[k])}
         IN  IF hits = {} THEN <<>>
             ELSE <<base_name \o Extensions[CHOOSE k \in hits : \A r \in hits : k <= r]>>

(***************************************************************************)
(* QuestionBank._parse_question                                            *)
(***************************************************************************)
OptionLetters == {"A", "B", "C", "D"}

\* scalar_field without the call of strip()
scalar_field_unstripped(X, text) ==
    LET m == field_search(X, text) IN
    IF m = <<>> THEN <<>> ELSE m[1]

\* the stripped group of the first match of a scalar field, "" by default
scalar_field(X, text) ==
    LET m == field_search(X, text) IN
    IF m = <<>> THEN <<>> ELSE strip(m[1])

\* Question() with the fields the chunk supplies; <<>> stands for None and
\* <<q>> for the Question q
parse_question(text, pdir, existing) ==
    LET q == [ j_id     |-> scalar_field("J", text),
               p_id     |-> scalar_field("P", text),
               i_id     |-> scalar_field("I", text),
               question |-> scalar_field("Q", text),
               answer   |-> scalar_field("T", text),
               options  |-> [o \in {x \in OptionLetters : field_search(x, text) # <<>>}
                                |-> strip(field_search(o, text)[1])],
               image_path |->
                   IF field_search("F", text) # <<>> /\ pdir # ""
                   THEN resolve_image(existing, strip(field_search("F", text)[1]))
                   ELSE <<>> ]
    IN  IF q.question # <<>> THEN <<q>> ELSE <<>>

\* parse_chunks giving up at the first chunk that yields None
RECURSIVE parse_chunks_abort(_, _, _)
parse_chunks_abort(matches, pdir, existing) ==
    IF matches = <<>> THEN <<>>
    ELSE LET q == parse_question(Head(matches), pdir, existing) IN
         IF q = <<>> THEN <<>>
         ELSE q \o parse_chunks_abort(Tail(matches), pdir, existing)

\* parse_chunks inserting each Question at the front of the list
RECURSIVE parse_chunks_front(_, _, _)
parse_chunks_front(matches, pdir, existing) ==
    IF matches = <<>> THEN <<>>
    ELSE parse_chunks_front(Tail(matches), pdir, existing)
         \o parse_question(Head(matches), pdir, existing)

\* lines 67-71: the Questions of the chunks, in chunk order, None dropped
RECURSIVE parse_chunks(_, _, _)
parse_chunks(matches, pdir, existing) ==
    IF matches = <<>> THEN <<>>
    ELSE parse_question(Head(matches), pdir, existing)
         \o parse_chunks(Tail(matches), pdir, existing)

(***************************************************************************)
(* QuestionBank.load_from_file                                             *)
(***************************************************************************)
\* the media directories of the model: the photo directory beside the bank
\* file, the TK/photo directory beside main.py, and one a caller passes
SiblingPhotoDir == "photo"
DefaultPhotoDir == "TK/photo"
CustomPhotoDir == "custom"
PhotoDirs == {SiblingPhotoDir, DefaultPhotoDir, CustomPhotoDir}

\* the TK directory beside main.py
TkDir == "TK"

\* os.path.exists of a directory: it holds the empty name
dir_exists(d) == <<>> \in images[d]

\* lines 43-58: the media directory a load selects
select_photo_dir(pd) ==
    IF pd # "" THEN pd
    ELSE IF dir_exists(SiblingPhotoDir) THEN SiblingPhotoDir
    ELSE IF dir_exists(DefaultPhotoDir) THEN DefaultPhotoDir
    ELSE ""

\* the names os.path.exists finds under the media directory d
existing_in(d) == IF d = "" THEN {} ELSE images[d]

\* load_outcome with the question list cleared before the file is opened
load_outcome_clear_first(filepath, pd) ==
    LET dir == select_photo_dir(pd) IN
    IF ~fs[filepath].readable
    THEN [photo_dir |-> dir, questions |-> <<>>, ret |-> FALSE]
    ELSE LET matches == find_chunks(fs[filepath].text, 1)
             parsed == parse_chunks(matches, dir, existing_in(dir))
         IN  [photo_dir |-> dir, questions |-> parsed, ret |-> Len(parsed) > 0]

\* lines 41-84: the store after load_from_file(filepath, photo_dir) and the
\* value the call returns; open() raises on an unreadable path, and the
\* handler returns False with the question list as it was
load_outcome(filepath, pd) ==
    LET dir == select_photo_dir(pd) IN
    IF ~fs[filepath].readable
    THEN [photo_dir |-> dir, questions |-> questions, ret |-> FALSE]
    ELSE LET matches == find_chunks(fs[filepath].text, 1)
             parsed == parse_chunks(matches, dir, existing_in(dir))
         IN  [photo_dir |-> dir, questions |-> parsed, ret |-> Len(parsed) > 0]

\* a direct call of QuestionBank.load_from_file
load_from_file(filepath, pd) ==
    LET r == load_outcome(filepath, pd) IN
    /\ questions' = r.questions
    /\ photo_dir' = r.photo_dir
    /\ call' = [name |-> "load_from_file", filepath |-> filepath,
                photo_dir |-> pd, ret |-> r.ret]
    /\ UNCHANGED <<fs, images, arg, current_questions, current_index,
                   exam_mode, search_mode, before_search_state>>

(***************************************************************************)
(* QuestionBank.search_by_keyword / search_by_chapter / search_by_id       *)
(***************************************************************************)
\* filter_loop appending every matching Question twice
RECURSIVE filter_loop_twice(_, _)
filter_loop_twice(qs, matching) ==
    IF qs = <<>> THEN <<>>
    ELSE (IF Head(qs) \in matching THEN <<Head(qs), Head(qs)>> ELSE <<>>)
         \o filter_loop_twice(Tail(qs), matching)

\* the loop `for q in self.questions: if <match>: results.append(q)`, with
\* the Questions that satisfy <match> given as the set matching
RECURSIVE filter_loop(_, _)
filter_loop(qs, matching) ==
    IF qs = <<>> THEN <<>>
    ELSE (IF Head(qs) \in matching THEN <<Head(qs)>> ELSE <<>>)
         \o filter_loop(Tail(qs), matching)

\* the Questions of the store
stored == {questions[i] : i \in 1..Len(questions)}

\* search_by_keyword that also looks at i_id
search_by_keyword_all_fields(keyword) ==
    IF keyword = <<>> THEN questions
    ELSE LET kw == strip(keyword)
             match(q) ==
                 \/ fuzzy_match(kw, q.question)
                 \/ fuzzy_match(kw, q.j_id)
                 \/ fuzzy_match(kw, q.p_id)
                 \/ fuzzy_match(kw, q.i_id)
                 \/ \E o \in DOMAIN q.options : fuzzy_match(kw, q.options[o])
         IN  filter_loop(questions, {q \in stored : match(q)})

search_by_keyword(keyword) ==
    IF keyword = <<>> THEN questions
    ELSE LET kw == strip(keyword)
             match(q) ==
                 \/ fuzzy_match(kw, q.question)
                 \/ fuzzy_match(kw, q.j_id)
                 \/ fuzzy_match(kw, q.p_id)
                 \/ \E o \in DOMAIN q.options : fuzzy_match(kw, q.options[o])
         IN  filter_loop(questions, {q \in stored : match(q)})

\* search_by_chapter matching the chapter code as a prefix only
search_by_chapter_prefix(chapter) ==
    IF chapter = <<>> THEN questions
    ELSE LET ch == strip(chapter)
             match(q) == ch # <<>> /\ starts_at(normalize(q.p_id), 1, normalize(ch))
         IN  filter_loop(questions, {q \in stored : match(q)})

search_by_chapter(chapter) ==
    IF chapter = <<>> THEN questions
    ELSE LET ch == strip(chapter)
             match(q) == fuzzy_match(ch, q.p_id)
         IN  filter_loop(questions, {q \in stored : match(q)})

\* search_by_id that also looks at j_id
search_by_id_or_display_id(question_id) ==
    IF question_id = <<>> THEN questions
    ELSE LET id == strip(question_id)
             match(q) == fuzzy_match(id, q.i_id) \/ fuzzy_match(id, q.j_id)
         IN  filter_loop(questions, {q \in stored : match(q)})

\* lines 197-198, 212-213, 224-225: for the empty query the three searches
\* return self.questions, the list object of the store, and otherwise the
\* list results they build
returns_store_list(query) == query = <<>>

search_by_id(question_id) ==
    IF question_id = <<>> THEN questions
    ELSE LET id == strip(question_id)
             match(q) == fuzzy_match(id, q.i_id)
         IN  filter_loop(questions, {q \in stored : match(q)})

(***************************************************************************)
(* Bank files given to the parser.  A file is described by the records     *)
(* its author wrote (the tags of each record and the shape of each value)  *)
(* and is rendered to the flat text the parser reads.                      *)
(***************************************************************************)
MaxFields == 2     \* field lines of the record of a one-record file
MaxChunks == 3     \* records of a file of several records

Digit == <<"1", "2", "3", "4", "5", "6", "7", "8", "9">>

FieldTags == {"P", "I", "Q", "T", "A", "B", "C", "D", "F"}
TagOrder == <<"P", "I", "Q", "T", "A", "B", "C", "D", "F">>

\* the shapes of a value: text, text with whitespace around and inside it,
\* nothing at all, whitespace only
Forms == {"plain", "padded", "empty", "blank"}

\* the characters written after the tag X in record k
value_text(X, form, k) ==
    CASE form = "plain"  -> <<lower_char(X), Digit[k]>>
      [] form = "padded" -> <<SP, lower_char(X), SP, Digit[k], "\t">>
      [] form = "empty"  -> <<>>
      [] form = "blank"  -> <<SP, "\t">>

\* the same value without the whitespace around it, written out by hand
trimmed_value(X, form, k) ==
    CASE form = "plain"  -> <<lower_char(X), Digit[k]>>
      [] form = "padded" -> <<lower_char(X), SP, Digit[k]>>
      [] form = "empty"  -> <<>>
      [] form = "blank"  -> <<>>

\* the maps from at most n field tags to the shapes of their values
FieldMaps(tags, n) ==
    UNION {[S -> Forms] : S \in {T \in SUBSET tags : Cardinality(T) <= n}}

\* a record: the shape of its [J] value, its field lines, and whether the
\* field lines are written in the order of TagOrder or in the reverse order
RichRecords ==
    {[j |-> jf, f |-> f, rev |-> rv] :
        jf \in {"plain", "padded"}, f \in FieldMaps(FieldTags, MaxFields), rv \in BOOLEAN}

\* the records of a file of several records: a [Q] line of any shape or
\* none, and a [P] line beside a plain [Q] line or alone
SimpleRecords ==
    {[j |-> "plain", f |-> f, rev |-> FALSE] :
        f \in {g \in FieldMaps({"P", "Q"}, 2) :
                 "P" \in DOMAIN g =>
                     /\ g["P"] = "plain"
                     /\ "Q" \in DOMAIN g => g["Q"] = "plain"}}

RECURSIVE SeqsUpTo(_, _)
SeqsUpTo(S, n) ==
    IF n = 0 THEN {<<>>}
    ELSE LET shorter == SeqsUpTo(S, n - 1) IN
         shorter \cup {Append(q, x) : q \in {t \in shorter : Len(t) = n - 1}, x \in S}

\* a file: its records and whether its last line ends with a newline
BankFiles ==
    {[recs |-> <<r>>, eol |-> e] :
        r \in {x \in RichRecords : x.rev => Cardinality(DOMAIN x.f) >= 2},
        e \in BOOLEAN}
    \cup
    {[recs |-> rs, eol |-> TRUE] :
        rs \in {q \in SeqsUpTo(SimpleRecords, MaxChunks) : Len(q) >= 2}}

reverse(q) == [i \in 1..Len(q) |-> q[Len(q) + 1 - i]]

\* the tags of the field lines of record r, in the order they are written
line_tags(r) ==
    LET inorder == SelectSeq(TagOrder, LAMBDA t : t \in DOMAIN r.f) IN
    IF r.rev THEN reverse(inorder) ELSE inorder

RECURSIVE render_lines(_, _, _)
render_lines(r, tags, k) ==
    IF tags = <<>> THEN <<>>
    ELSE tag(Head(tags)) \o value_text(Head(tags), r.f[Head(tags)], k) \o <<NL>>
         \o render_lines(r, Tail(tags), k)

render_record(r, k) ==
    tag("J") \o value_text("J", r.j, k) \o <<NL>> \o render_lines(r, line_tags(r), k)

RECURSIVE render_records(_, _)
render_records(recs, k) ==
    IF k > Len(recs) THEN <<>>
    ELSE render_record(recs[k], k) \o render_records(recs, k + 1)

render(file) ==
    LET t == render_records(file.recs, 1) IN
    IF file.eol THEN t ELSE SubSeq(t, 1, Len(t) - 1)

(***************************************************************************)
(* LoadSpec: one bank file, loaded by a direct call of load_from_file      *)
(***************************************************************************)
BankPath == "bank.txt"

\* the media directories on disk: the default directory exists and holds one
\* image, the directory a caller may pass holds two
MediaOnDisk ==
    [d \in PhotoDirs \cup {TkDir} |->
        CASE d = SiblingPhotoDir -> {}
          [] d = TkDir -> {<<>>}
          [] d = DefaultPhotoDir -> {<<>>, <<"f", "1", ".", "p", "n", "g">>}
          [] d = CustomPhotoDir  -> {<<>>, <<"f", "1">>, <<"f", "1", ".", "j", "p", "g">>}]

SessionInit ==
    /\ questions = <<>>
    /\ photo_dir = ""
    /\ current_questions = <<>>
    /\ current_index = 0
    /\ exam_mode = FALSE
    /\ search_mode = FALSE
    /\ before_search_state = <<>>
    /\ call = [name |-> "none"]

LoadInit ==
    /\ arg \in BankFiles
    /\ fs = [p \in {BankPath} |-> [readable |-> TRUE, text |-> render(arg)]]
    /\ images = MediaOnDisk
    /\ SessionInit

LoadBank ==
    /\ call.name = "none"
    /\ \E pd \in {"", CustomPhotoDir} : load_from_file(BankPath, pd)

LoadNext == LoadBank

LoadSpec == LoadInit /\ [][LoadNext]_vars

(***************************************************************************)
(* Claims about the parser (LoadSpec)                                      *)
(***************************************************************************)
\* the bank file has been loaded
Loaded == call.name = "load_from_file" /\ call.filepath = BankPath

\* the file is one record
OneRecord == Len(arg.recs) = 1

\* the value written after tag X of record r has text in it
HasText(r, X) == X \in DOMAIN r.f /\ r.f[X] \in {"plain", "padded"}

\* the trimmed value of the scalar tag X of record k, "" when X is absent
ScalarWritten(k, X) ==
    IF X \in DOMAIN arg.recs[k].f THEN trimmed_value(X, arg.recs[k].f[X], k) ELSE <<>>

\* C1: a one-record file whose first line is [J]<value> and which has a [Q]
\* line with text yields a Question whose j_id is the trimmed <value>
C1_DisplayIdIsJValue ==
    (Loaded /\ OneRecord /\ HasText(arg.recs[1], "Q")) =>
        /\ Len(questions) = 1
        /\ questions[1].j_id = trimmed_value("J", arg.recs[1].j, 1)

\* the scalar attributes of the one Question equal the trimmed values written
ScalarsAsWritten ==
    /\ questions[1].p_id = ScalarWritten(1, "P")
    /\ questions[1].i_id = ScalarWritten(1, "I")
    /\ questions[1].question = ScalarWritten(1, "Q")
    /\ questions[1].answer = ScalarWritten(1, "T")

\* the options of the one Question have exactly the keys in keys, each with
\* the trimmed value written
OptionsAsWritten(keys) ==
    /\ DOMAIN questions[1].options = keys
    /\ \A o \in keys : questions[1].options[o] = trimmed_value(o, arg.recs[1].f[o], 1)

\* C2 as claimed: a one-record file with a [Q] line yields exactly one
\* Question; every tag present gives the trimmed rest of its line, every
\* absent scalar tag "" and every absent option tag no key
C2_FieldsAsClaimed ==
    (Loaded /\ OneRecord /\ "Q" \in DOMAIN arg.recs[1].f) =>
        /\ Len(questions) = 1
        /\ ScalarsAsWritten
        /\ OptionsAsWritten(OptionLetters \cap DOMAIN arg.recs[1].f)

\* C2 as amended: when the [Q] line has text after trimming there is exactly
\* one Question, its scalar attributes are the trimmed values written ("" for
\* an absent tag), and options has a key exactly for the option tags followed
\* by at least one character, each with the trimmed rest of the line; when
\* the [Q] line is empty or blank there is no Question
C2_FieldsAsParsed ==
    (Loaded /\ OneRecord /\ "Q" \in DOMAIN arg.recs[1].f) =>
        IF HasText(arg.recs[1], "Q")
        THEN /\ Len(questions) = 1
             /\ ScalarsAsWritten
             /\ OptionsAsWritten({o \in OptionLetters \cap DOMAIN arg.recs[1].f :
                                     arg.recs[1].f[o] # "empty"})
        ELSE questions = <<>>

\* a one-record file with a padded [Q] value and a padded option was loaded
C2_Witness ==
    /\ Loaded /\ OneRecord
    /\ "Q" \in DOMAIN arg.recs[1].f /\ arg.recs[1].f["Q"] = "padded"
    /\ "B" \in DOMAIN arg.recs[1].f /\ arg.recs[1].f["B"] = "padded"
    /\ arg.recs[1].rev
    /\ Len(questions) = 1

\* the records of the file that have a [Q] value, in file order
ChunksWithQ == {k \in 1..Len(arg.recs) : HasText(arg.recs[k], "Q")}

\* C6: a chunk without a [Q] value contributes no Question, every chunk with
\* one contributes its Question whatever the chunks around it, and every
\* Question of the store has non-empty text
C6_ChunkWithoutQDropped ==
    Loaded =>
        /\ Len(questions) = Cardinality(ChunksWithQ)
        /\ \A k \in 1..Len(arg.recs) :
               (k \in ChunksWithQ) <=>
                   \E i \in 1..Len(questions) :
                       /\ questions[i].question # <<>>
                       /\ questions[i].question[Len(questions[i].question)] = Digit[k]
        /\ \A k \in ChunksWithQ :
               \E i \in 1..Len(questions) : questions[i].question = ScalarWritten(k, "Q")
        /\ \A i \in 1..Len(questions) : questions[i].question # <<>>

\* a file of three records whose second record has no [Q] value was loaded
\* and the first and third records gave Questions
C6_Witness ==
    /\ Loaded /\ Len(arg.recs) = 3
    /\ ChunksWithQ = {1, 3}
    /\ "Q" \notin DOMAIN arg.recs[2].f
    /\ Len(questions) = 2

\* the record that produced Question q: its number ends the [Q] value
chunk_of(q) == CHOOSE k \in 1..Len(Digit) : Digit[k] = q.question[Len(q.question)]

\* C7: Questions are stored in the order of their chunks in the file
C7_FileOrder ==
    Loaded =>
        \A i, j \in 1..Len(questions) :
            i < j => chunk_of(questions[i]) < chunk_of(questions[j])

\* a file of three records all with a [Q] value was loaded
C7_Witness ==
    /\ Loaded /\ Len(arg.recs) = 3
    /\ Len(questions) = 3
    /\ call.ret

(***************************************************************************)
(* LineSpec: a bank file written line by line, loaded by load_from_file     *)
(***************************************************************************)
MaxLines == 3      \* lines after the line [J]1 of the file

\* a line: the tag it begins with, the characters after that tag, the same
\* characters without the whitespace around them, and the tag written in
\* the middle of the line with the characters after it, "" when there is
\* none
LinePool ==
    { [tag |-> "J", rest |-> <<"2">>, val |-> <<"2">>, mid |-> "", midval |-> <<>>],
      [tag |-> "Q", rest |-> <<"q", "1">>, val |-> <<"q", "1">>, mid |-> "", midval |-> <<>>],
      [tag |-> "Q", rest |-> <<>>, val |-> <<>>, mid |-> "", midval |-> <<>>],
      [tag |-> "Q", rest |-> <<"q", "2", SP, "[", "A", "]", "x">>,
                    val  |-> <<"q", "2", SP, "[", "A", "]", "x">>,
                    mid |-> "A", midval |-> <<"x">>],
      [tag |-> "Q", rest |-> <<"q", "3", SP, "[", "J", "]", "9">>,
                    val  |-> <<"q", "3", SP, "[", "J", "]", "9">>,
                    mid |-> "J", midval |-> <<"9">>],
      [tag |-> "A", rest |-> <<"a", "1">>, val |-> <<"a", "1">>, mid |-> "", midval |-> <<>>],
      [tag |-> "A", rest |-> <<SP, "a", "2">>, val |-> <<"a", "2">>, mid |-> "", midval |-> <<>>],
      [tag |-> "A", rest |-> <<>>, val |-> <<>>, mid |-> "", midval |-> <<>>],
      [tag |-> "A", rest |-> <<SP, "\t">>, val |-> <<>>, mid |-> "", midval |-> <<>>] }

\* a file: whether a line of other text precedes the line [J]1, the lines
\* after it, and whether the last line ends with a newline
LineFiles ==
    {[pre |-> p, lines |-> ls, eol |-> e] :
        p \in BOOLEAN, ls \in SeqsUpTo(LinePool, MaxLines), e \in BOOLEAN}

RECURSIVE render_line_seq(_)
render_line_seq(ls) ==
    IF ls = <<>> THEN <<>>
    ELSE tag(Head(ls).tag) \o Head(ls).rest \o <<NL>> \o render_line_seq(Tail(ls))

render_line_file(file) ==
    LET t == (IF file.pre THEN <<"p", "r", "e", NL>> ELSE <<>>)
             \o tag("J") \o <<"1", NL>> \o render_line_seq(file.lines)
    IN  IF file.eol THEN t ELSE SubSeq(t, 1, Len(t) - 1)

LineInit ==
    /\ arg \in LineFiles
    /\ fs = [p \in {BankPath} |-> [readable |-> TRUE, text |-> render_line_file(arg)]]
    /\ images = MediaOnDisk
    /\ SessionInit

LineSpec == LineInit /\ [][LoadNext]_vars

\* the places of the lines that begin with tag X
LinesOf(X) == {k \in 1..Len(arg.lines) : arg.lines[k].tag = X}

\* the places of the lines that begin with tag X and have at least one
\* character after it
WrittenLinesOf(X) == {k \in LinesOf(X) : arg.lines[k].rest # <<>>}

\* the least place of a non-empty set of places
FirstOf(S) == CHOOSE k \in S : \A r \in S : k <= r

\* the file is one record: [J] occurs only in its line [J]1
OneChunk == \A k \in 1..Len(arg.lines) : arg.lines[k].tag # "J" /\ arg.lines[k].mid # "J"

\* every tag of the file is at the start of its line
TagsAtLineStart == \A k \in 1..Len(arg.lines) : arg.lines[k].mid = ""

\* the question text of the record is v: no Question when v is empty
QuestionTextIs(v) ==
    IF v = <<>> THEN questions = <<>>
    ELSE Len(questions) = 1 /\ questions[1].question = v

\* option A of every Question is v when present holds, and there is no
\* option A otherwise
OptionAIs(present, v) ==
    \A n \in 1..Len(questions) :
        /\ "A" \in DOMAIN questions[n].options <=> present
        /\ present => questions[n].options["A"] = v

\* C13 as claimed: in a record with several lines of the same tag X, the
\* value of field X is the trimmed rest of the first of these lines, also
\* when that line has nothing after the tag
C13_FirstLineWins ==
    (Loaded /\ OneChunk /\ TagsAtLineStart) =>
        /\ Cardinality(LinesOf("Q")) > 1 =>
               QuestionTextIs(arg.lines[FirstOf(LinesOf("Q"))].val)
        /\ (Cardinality(LinesOf("A")) > 1 /\ arg.lines[FirstOf(LinesOf("A"))].rest # <<>>) =>
               OptionAIs(TRUE, arg.lines[FirstOf(LinesOf("A"))].val)

\* C13 as amended: in a record whose tags are all at the start of their
\* lines and which has several lines of the same tag X, the value of field
\* X is the trimmed rest of the first of these lines that has at least one
\* character after the tag, and the field is as without a line of tag X
\* when none of them has
C13_FirstWrittenLineWins ==
    (Loaded /\ OneChunk /\ TagsAtLineStart) =>
        /\ Cardinality(LinesOf("Q")) > 1 =>
               QuestionTextIs(IF WrittenLinesOf("Q") = {} THEN <<>>
                              ELSE arg.lines[FirstOf(WrittenLinesOf("Q"))].val)
        /\ Cardinality(LinesOf("A")) > 1 =>
               OptionAIs(WrittenLinesOf("A") # {},
                         IF WrittenLinesOf("A") = {} THEN <<>>
                         ELSE arg.lines[FirstOf(WrittenLinesOf("A"))].val)

\* the file [J]1, [Q], [Q]q1 has given one Question, with text q1
C13_Witness ==
    /\ Loaded
    /\ Len(arg.lines) = 2
    /\ arg.lines[1].tag = "Q" /\ arg.lines[1].rest = <<>>
    /\ arg.lines[2].tag = "Q" /\ arg.lines[2].rest = <<"q", "1">>
    /\ Len(questions) = 1
    /\ questions[1].question = <<"q", "1">>

\* C14: a tag supplies a field only from the start of a line: a Question of
\* a one-record file has option A only when a line of the record begins
\* with [A], and the value of a [Q] line is its whole trimmed rest
C14_TagOnlyAtLineStart ==
    (Loaded /\ OneChunk) =>
        \A n \in 1..Len(questions) :
            /\ "A" \in DOMAIN questions[n].options => LinesOf("A") # {}
            /\ \E k \in LinesOf("Q") : questions[n].question = arg.lines[k].val

\* C15: the file is split into as many chunks as it has lines that begin
\* with [J], whatever precedes the first of them and whatever [J] stands in
\* the middle of a line
C15_OneChunkPerJLine ==
    Loaded =>
        /\ Len(find_chunks(fs[BankPath].text, 1)) = 1 + Cardinality(LinesOf("J"))
        /\ Len(questions) <= 1 + Cardinality(LinesOf("J"))
        /\ \A n \in 1..Len(questions) :
               \E k \in LinesOf("Q") : questions[n].question = arg.lines[k].val

(***************************************************************************)
(* ImageSpec: a record with an [F] line, loaded with media files on disk   *)
(***************************************************************************)
\* the [F] line of the record: the characters after the tag, the same
\* without the whitespace around them, and that name without its extension
FValues ==
    { [rest |-> <<"f", "1", ".", "b", "m", "p">>,
       val  |-> <<"f", "1", ".", "b", "m", "p">>, stem |-> <<"f", "1">>],
      [rest |-> <<"f", "1">>, val |-> <<"f", "1">>, stem |-> <<"f", "1">>],
      [rest |-> <<SP, "f", "1", ".", "p", "n", "g", "\t">>,
       val  |-> <<"f", "1", ".", "p", "n", "g">>, stem |-> <<"f", "1">>],
      [rest |-> <<SP, "\t">>, val |-> <<>>, stem |-> <<>>],
      [rest |-> <<>>, val |-> <<>>, stem |-> <<>>] }

\* the file names a media directory may hold
MediaNames ==
    { <<"f", "1", ".", "b", "m", "p">>, <<"f", "1">>,
      <<"f", "1", ".", "j", "p", "g">>, <<"f", "1", ".", "p", "n", "g">>,
      <<"f", "1", ".", "j", "p", "e", "g">>, <<"f", "1", ".", "J", "P", "G">>,
      <<"f", "1", ".", "P", "N", "G">>, <<"f", "1", ".", "J", "P", "E", "G">> }

\* the disks: the directory a caller passes holds any of the names, and the
\* default directory is missing or holds one image
MediaLayouts ==
    {[d \in PhotoDirs \cup {TkDir} |->
        CASE d = SiblingPhotoDir -> {}
          [] d = TkDir -> {<<>>}
          [] d = DefaultPhotoDir -> dflt
          [] d = CustomPhotoDir  -> {<<>>} \cup held] :
        held \in SUBSET MediaNames,
        dflt \in {{}, {<<>>, <<"f", "1", ".", "p", "n", "g">>}}}

render_image_record(f) ==
    tag("J") \o <<"1", NL>> \o tag("Q") \o <<"q", "1", NL>> \o tag("F") \o f.rest \o <<NL>>

ImageInit ==
    /\ arg \in FValues
    /\ fs = [p \in {BankPath} |-> [readable |-> TRUE, text |-> render_image_record(arg)]]
    /\ images \in MediaLayouts
    /\ SessionInit

ImageSpec == ImageInit /\ [][LoadNext]_vars

\* the extensions in the order the documentation gives them
DocumentedExtensions ==
    << <<".", "j", "p", "g">>, <<".", "p", "n", "g">>, <<".", "j", "p", "e", "g">>,
       <<".", "J", "P", "G">>, <<".", "P", "N", "G">>, <<".", "J", "P", "E", "G">> >>

\* the first name of the sequence names that is in the set held, <<>> when
\* none is
RECURSIVE FirstHeld(_, _)
FirstHeld(names, held) ==
    IF names = <<>> THEN <<>>
    ELSE IF Head(names) \in held THEN <<Head(names)>>
    ELSE FirstHeld(Tail(names), held)

\* C16: for a record with an [F] value loaded with a media directory, the
\* image is the file of that name in the directory if it exists, otherwise
\* the first existing file among the name without its extension followed
\* by .jpg, .png, .jpeg, .JPG, .PNG, .JPEG in this order, and none if no
\* such file exists; the Question is returned in every case
C16_ImageResolution ==
    (Loaded /\ arg.rest # <<>> /\ photo_dir # "") =>
        /\ Len(questions) = 1
        /\ questions[1].question = <<"q", "1">>
        /\ questions[1].image_path =
               FirstHeld(<<arg.val>> \o [k \in 1..6 |-> arg.stem \o DocumentedExtensions[k]],
                         images[photo_dir])

\* [F]f1.bmp, with f1.png and f1.JPG but neither f1.bmp nor f1.jpg in the
\* directory passed to the load, has resolved to f1.png
C16_Witness ==
    /\ Loaded /\ call.photo_dir = CustomPhotoDir
    /\ arg.val = <<"f", "1", ".", "b", "m", "p">>
    /\ images[CustomPhotoDir] =
           {<<>>, <<"f", "1", ".", "p", "n", "g">>, <<"f", "1", ".", "J", "P", "G">>}
    /\ Len(questions) = 1
    /\ questions[1].image_path = << <<"f", "1", ".", "p", "n", "g">> >>

(***************************************************************************)
(* MatchSpec: _fuzzy_match applied to a pattern and a text                 *)
(***************************************************************************)
MaxPattern == 2    \* length of the patterns enumerated
MaxText == 2       \* length of the texts enumerated

MatchAlphabet == {"l", "I", "1", "O", "0", "a", "A"}

\* the examples of the documentation, and strings with a dot and a space
MatchExamples ==
    { [pattern |-> <<"l", "0", "v", "e">>, text |-> <<"I", "0", "V", "E">>],
      [pattern |-> <<"x", "y", "z">>,      text |-> <<"a", "b", "c">>],
      [pattern |-> <<"L", "o">>,           text |-> <<"h", "e", "1", "0", "w">>],
      [pattern |-> <<"1", ".", "2">>,      text |-> <<"2", "I", ".", "2", "0">>],
      [pattern |-> <<"b", SP>>,            text |-> <<"a", "B", "c">>] }

MatchInputs ==
    {[pattern |-> p, text |-> t] :
        p \in SeqsUpTo(MatchAlphabet, MaxPattern), t \in SeqsUpTo(MatchAlphabet, MaxText)}
    \cup MatchExamples

NoStore ==
    /\ fs = [p \in {BankPath} |-> [readable |-> FALSE, text |-> <<>>]]
    /\ images = MediaOnDisk
    /\ SessionInit

MatchInit ==
    /\ arg \in MatchInputs
    /\ NoStore

CallFuzzyMatch ==
    /\ call.name = "none"
    /\ call' = [name |-> "fuzzy_match", ret |-> fuzzy_match(arg.pattern, arg.text)]
    /\ UNCHANGED <<fs, images, arg, questions, photo_dir, current_questions,
                   current_index, exam_mode, search_mode, before_search_state>>

MatchNext == CallFuzzyMatch

MatchSpec == MatchInit /\ [][MatchNext]_vars

\* the normal form of one character as the documentation gives it:
\* l, I, 1 -> i and o, O, 0 -> 0, every other character lower-cased
Confusable(c) ==
    CASE c \in {"l", "L", "i", "I", "1"} -> "i"
      [] c \in {"o", "O", "0"} -> "0"
      [] c = "A" -> "a"
      [] c = "B" -> "b"
      [] c = "V" -> "v"
      [] c = "E" -> "e"
      [] OTHER -> c

\* the lower-case form of one character of the inputs
LowerCased(c) ==
    CASE c = "I" -> "i" [] c = "L" -> "l" [] c = "O" -> "o" [] c = "A" -> "a"
      [] c = "B" -> "b" [] c = "V" -> "v" [] c = "E" -> "e" [] OTHER -> c

\* p occurs in t at some offset once both are mapped character by character
ContainsUnder(f(_), p, t) ==
    \E off \in 0..(Len(t) - Len(p)) :
        \A k \in 1..Len(p) : f(p[k]) = f(t[off + k])

MaxRecords == 2    \* Questions in the store searched

\* a Question as _parse_question builds it from a chunk with only a [Q] line
BareQuestion ==
    [j_id |-> <<>>, p_id |-> <<>>, i_id |-> <<>>, question |-> <<"z">>,
     answer |-> <<>>, options |-> <<>>, image_path |-> <<>>]

ChapterCodes ==
    { <<"1", ".", "2">>, <<"1", ".", "2", ".", "3">>, <<"1", ".", "2", "0">>,
      <<"2", "1", ".", "2">>, <<"l", ".", "2">>, <<"2", ".", "1">> }

Token == <<"x", "A", "B">>

\* Questions that carry one chapter code, or the token in exactly one
\* field, or an internal id; _parse_question fills j_id when its text has
\* a [J] line
QuestionPool ==
    {BareQuestion}
    \cup {[BareQuestion EXCEPT !.p_id = c] : c \in ChapterCodes}
    \cup { [BareQuestion EXCEPT !.question = Token],
           [BareQuestion EXCEPT !.j_id = Token],
           [BareQuestion EXCEPT !.p_id = Token],
           [BareQuestion EXCEPT !.i_id = Token],
           [BareQuestion EXCEPT !.answer = Token],
           [BareQuestion EXCEPT !.options = [o \in {"A"} |-> Token]],
           [BareQuestion EXCEPT !.options =
                [o \in {"C", "D"} |-> IF o = "D" THEN Token ELSE <<"z">>]],
           [BareQuestion EXCEPT !.i_id = <<"M", "C">>] }

Queries ==
    { <<>>, <<SP>>, <<"1", ".", "2">>, <<"a", "b">>, <<"a", "b", SP>>,
      <<SP, "a", "b">>, <<"m", "c">>, <<"X", "Y">> }

SearchInit ==
    /\ arg = <<>>
    /\ fs = [p \in {BankPath} |-> [readable |-> FALSE, text |-> <<>>]]
    /\ images = MediaOnDisk
    /\ questions \in SeqsUpTo(QuestionPool, MaxRecords)
    /\ photo_dir = ""
    /\ current_questions = <<>>
    /\ current_index = 0
    /\ exam_mode = FALSE
    /\ search_mode = FALSE
    /\ before_search_state = <<>>
    /\ call = [name |-> "none"]

Searched(name, query, ret) ==
    /\ call.name = "none"
    /\ call' = [name |-> name, query |-> query, ret |-> ret,
                is_store_list |-> returns_store_list(query)]
    /\ UNCHANGED <<fs, images, arg, questions, photo_dir, current_questions,
                   current_index, exam_mode, search_mode, before_search_state>>

CallSearchByKeyword ==
    \E query \in Queries : Searched("search_by_keyword", query, search_by_keyword(query))

CallSearchByChapter ==
    \E query \in Queries : Searched("search_by_chapter", query, search_by_chapter(query))

CallSearchById ==
    \E query \in Queries : Searched("search_by_id", query, search_by_id(query))

SearchNext == CallSearchByKeyword \/ CallSearchByChapter \/ CallSearchById

SearchSpec == SearchInit /\ [][SearchNext]_vars

SearchNames == {"search_by_keyword", "search_by_chapter", "search_by_id"}

\* the query is empty or whitespace only
Blank(query) == \A k \in 1..Len(query) : query[k] \in {SP, "\t", NL}

\* ret holds exactly the Questions of the store that satisfy M, each once
\* per place it has in the store, in the order of the store
IsSelection(ret, M(_)) ==
    LET idx == {i \in 1..Len(questions) : M(questions[i])} IN
    /\ Len(ret) = Cardinality(idx)
    /\ \A i \in idx : ret[Cardinality({j \in idx : j <= i})] = questions[i]

\* C5: every search mode returns the whole store, in order, for a query
\* that is empty or whitespace only
C5_BlankQueryReturnsAll ==
    (call.name \in SearchNames /\ Blank(call.query)) => call.ret = questions

\* a Question matches the keyword kw in its body, displayId, chapterId or
\* one of its option texts
KeywordFields(kw, q) ==
    \/ fuzzy_match(kw, q.question)
    \/ fuzzy_match(kw, q.j_id)
    \/ fuzzy_match(kw, q.p_id)
    \/ \E o \in {"A", "B", "C", "D"} :
           o \in DOMAIN q.options /\ fuzzy_match(kw, q.options[o])

\* C9 as claimed: for a non-blank query, search_by_keyword returns the
\* Questions for which _fuzzy_match(query, field) holds for the body, the
\* displayId, the chapterId or an option text, in store order
C9_KeywordAsClaimed ==
    (call.name = "search_by_keyword" /\ ~Blank(call.query)) =>
        LET M(q) == KeywordFields(call.query, q) IN IsSelection(call.ret, M)

\* C9 as amended: the same with the query stripped of the whitespace around
\* it before it is matched
C9_KeywordStripped ==
    (call.name = "search_by_keyword" /\ ~Blank(call.query)) =>
        LET M(q) == KeywordFields(strip(call.query), q) IN IsSelection(call.ret, M)

\* a query with a space before it found the Question with the token in an
\* option and not the one with the token in its internal id
C9_Witness ==
    /\ call.name = "search_by_keyword" /\ call.query = <<SP, "a", "b">>
    /\ Len(questions) = 2
    /\ questions[1].i_id = Token
    /\ DOMAIN questions[2].options = {"C", "D"}
    /\ call.ret = <<questions[2]>>

\* C10: search_by_chapter("1.2") returns the Questions whose normalized
\* chapterId contains the normalized "1.2", among them those with chapterId
\* "1.2.3", "1.20" and "21.2", and no other Question
C10_ChapterSubstring ==
    (call.name = "search_by_chapter" /\ call.query = <<"1", ".", "2">>) =>
        LET M(q) == ContainsUnder(Confusable, <<"1", ".", "2">>, q.p_id) IN
        /\ IsSelection(call.ret, M)
        /\ \A i \in 1..Len(questions) :
               questions[i].p_id \in { <<"1", ".", "2", ".", "3">>, <<"1", ".", "2", "0">>,
                                       <<"2", "1", ".", "2">> }
                   => \E k \in 1..Len(call.ret) : call.ret[k] = questions[i]

\* search_by_chapter("1.2") returned the Question of chapter "21.2" and not
\* the one of chapter "2.1"
C10_Witness ==
    /\ call.name = "search_by_chapter" /\ call.query = <<"1", ".", "2">>
    /\ Len(questions) = 2
    /\ questions[1].p_id = <<"2", ".", "1">>
    /\ questions[2].p_id = <<"2", "1", ".", "2">>
    /\ call.ret = <<questions[2]>>

\* C11 as claimed: for a non-blank query, search_by_id returns a Question
\* exactly when _fuzzy_match(query, internalId) holds for it, whatever its
\* other fields; on the store whose only Question has internalId "MC",
\* "mc" returns it and "XY" returns nothing
C11_IdAsClaimed ==
    (call.name = "search_by_id" /\ ~Blank(call.query)) =>
        LET M(q) == fuzzy_match(call.query, q.i_id) IN IsSelection(call.ret, M)

\* C11 as amended: the same with the query stripped of the whitespace around
\* it before it is matched
C11_IdStripped ==
    (call.name = "search_by_id" /\ ~Blank(call.query)) =>
        /\ LET M(q) == fuzzy_match(strip(call.query), q.i_id) IN IsSelection(call.ret, M)
        /\ (Len(questions) = 1 /\ questions[1].i_id = <<"M", "C">>) =>
               /\ call.query = <<"m", "c">> => call.ret = questions
               /\ call.query = <<"X", "Y">> => call.ret = <<>>

\* search_by_id("ab") on a store of a Question with the token in its
\* displayId and one with the token in its internalId returned the second
C11_Witness ==
    /\ call.name = "search_by_id" /\ call.query = <<"a", "b">>
    /\ Len(questions) = 2
    /\ questions[1].j_id = Token
    /\ questions[2].i_id = Token
    /\ call.ret = <<questions[2]>>

\* ret takes its Questions from places of qs that go strictly upwards
IsSubsequence(ret, qs) ==
    \E f \in [1..Len(ret) -> 1..Len(qs)] :
        /\ \A a, b \in 1..Len(ret) : a < b => f[a] < f[b]
        /\ \A a \in 1..Len(ret) : ret[a] = qs[f[a]]

\* C12 as claimed: every search returns a new list, which is a subsequence
\* of the store
C12_NewListAsClaimed ==
    call.name \in SearchNames =>
        /\ ~call.is_store_list
        /\ IsSubsequence(call.ret, questions)

\* C12 as amended: a search leaves the store as it was and returns a
\* subsequence of it, in a new list unless the query is the empty string,
\* for which it returns the list of the store itself
C12_SearchIsPure ==
    [][ call'.name \in SearchNames =>
            /\ questions' = questions
            /\ IsSubsequence(call'.ret, questions)
            /\ call'.is_store_list <=> call'.query = <<>> ]_vars

\* a search that matched nothing returned the empty list from a store of
\* two Questions
C12_Witness ==
    /\ call.name \in SearchNames
    /\ call.query = <<"X", "Y">>
    /\ Len(questions) = 2
    /\ call.ret = <<>>
    /\ ~call.is_store_list

(***************************************************************************)
(* Spec: the session of ExamApp.  exam_answers and exam_start_time are     *)
(* written by the handlers and read only to score and time an exam; they   *)
(* are left out.  The back button is enabled exactly while search_mode     *)
(* holds, and the submit button is never created (exam_mode is False when  *)
(* setup_ui runs), so submit_exam runs only from next_question.            *)
(***************************************************************************)
BankA == "A.txt"
BankB == "B.txt"
BankNoQuestion == "empty.txt"
BankMissing == "missing.txt"
ReadablePaths == {BankA, BankB, BankNoQuestion}
SessionPaths == ReadablePaths \cup {BankMissing}

Rec(f) == [j |-> "plain", f |-> f, rev |-> FALSE]
OnlyQ(form) == [t \in {"Q"} |-> form]
OnlyP == [t \in {"P"} |-> "plain"]
BothPQ == [t \in {"P", "Q"} |-> "plain"]

\* the files on disk as their authors wrote them: A.txt gives two
\* Questions, B.txt one, empty.txt none
SessionFiles ==
    [p \in ReadablePaths |->
        CASE p = BankA -> [recs |-> <<Rec(BothPQ), Rec(OnlyQ("empty")), Rec(OnlyQ("padded"))>>,
                           eol |-> TRUE]
          [] p = BankB -> [recs |-> <<Rec(OnlyP), Rec(BothPQ)>>,
                           eol |-> FALSE]
          [] p = BankNoQuestion -> [recs |-> <<Rec(OnlyP), Rec(OnlyQ("blank"))>>,
                                    eol |-> TRUE]]

\* what the user types in the search dialog
SessionQueries == { <<"q", SP>>, <<"p", "1">>, <<"3">>, <<SP>> }

Init ==
    /\ arg = SessionFiles
    /\ fs = [p \in SessionPaths |->
                IF p \in ReadablePaths
                THEN [readable |-> TRUE, text |-> render(arg[p])]
                ELSE [readable |-> FALSE, text |-> <<>>]]
    /\ images = MediaOnDisk
    /\ SessionInit

\* lines 429-433: the media directory confirm_load passes for a custom bank
potential_photo_dir ==
    IF ~dir_exists(SiblingPhotoDir) /\ <<>> \in images[TkDir]
    THEN DefaultPhotoDir
    ELSE SiblingPhotoDir

\* load_question_bank.confirm_load for a file the user picks
confirm_load(filepath) ==
    LET r == load_outcome(filepath, potential_photo_dir) IN
    /\ questions' = r.questions
    /\ photo_dir' = r.photo_dir
    /\ IF r.ret
       THEN /\ current_questions' = r.questions
            /\ current_index' = 0
            /\ exam_mode' = FALSE
            /\ search_mode' = FALSE
       ELSE UNCHANGED <<current_questions, current_index, exam_mode, search_mode>>
    /\ call' = [name |-> "confirm_load", filepath |-> filepath, ret |-> r.ret]
    /\ UNCHANGED <<fs, images, arg, before_search_state>>

ConfirmLoad == \E filepath \in SessionPaths : confirm_load(filepath)

StartSequentialMode ==
    /\ IF questions = <<>>
       THEN UNCHANGED <<current_questions, current_index, exam_mode, search_mode>>
       ELSE /\ exam_mode' = FALSE
            /\ search_mode' = FALSE
            /\ current_questions' = questions
            /\ current_index' = 0
    /\ call' = [name |-> "start_sequential_mode"]
    /\ UNCHANGED <<fs, images, arg, questions, photo_dir, before_search_state>>

\* the results random.sample(self.bank.questions, count) can give: count
\* Questions from distinct places of the store, in any order
samples(count) ==
    {[k \in 1..count |-> questions[ix[k]]] :
        ix \in {f \in [1..count -> 1..Len(questions)] :
                   \A a, b \in 1..count : a # b => f[a] # f[b]}}

\* start_exam_mode.confirm_exam with a number typed in the dialog, which
\* start_exam_mode opens only when the store is not empty
ConfirmExam ==
    /\ questions # <<>>
    /\ \E count \in 0..(Len(questions) + 1) :
           /\ IF count <= 0 \/ count > Len(questions)
              THEN UNCHANGED <<current_questions, current_index, exam_mode, search_mode>>
              ELSE /\ exam_mode' = TRUE
                   /\ search_mode' = FALSE
                   /\ current_questions' \in samples(count)
                   /\ current_index' = 0
           /\ call' = [name |-> "confirm_exam"]
    /\ UNCHANGED <<fs, images, arg, questions, photo_dir, before_search_state>>

\* lines 624-629: the search the dialog's mode selects
search_results(mode, search_text) ==
    CASE mode = "keyword" -> search_by_keyword(search_text)
      [] mode = "chapter" -> search_by_chapter(search_text)
      [] mode = "id"      -> search_by_id(search_text)

\* do_search without `self.exam_mode = False`
DoSearch_keep_exam ==
    /\ questions # <<>>
    /\ \E mode \in {"keyword", "chapter", "id"}, typed \in SessionQueries :
           LET search_text == strip(typed)
               results == IF search_text = <<>> THEN <<>>
                          ELSE search_results(mode, search_text)
           IN  /\ IF results # <<>>
                  THEN /\ before_search_state' =
                              IF ~search_mode
                              THEN <<[questions |-> current_questions,
                                      index |-> current_index]>>
                              ELSE before_search_state
                       /\ current_questions' = results
                       /\ current_index' = 0
                       /\ UNCHANGED exam_mode
                       /\ search_mode' = TRUE
                  ELSE UNCHANGED <<before_search_state, current_questions,
                                   current_index, exam_mode, search_mode>>
               /\ call' = [name |-> "do_search"]
    /\ UNCHANGED <<fs, images, arg, questions, photo_dir>>

\* do_search saving the state before every search, without the test
\* `if not self.search_mode`
DoSearch_always_save ==
    /\ questions # <<>>
    /\ \E mode \in {"keyword", "chapter", "id"}, typed \in SessionQueries :
           LET search_text == strip(typed)
               results == IF search_text = <<>> THEN <<>>
                          ELSE search_results(mode, search_text)
           IN  /\ IF results # <<>>
                  THEN /\ before_search_state' =
                              <<[questions |-> current_questions,
                                      index |-> current_index]>>
                       /\ current_questions' = results
                       /\ current_index' = 0
                       /\ exam_mode' = FALSE
                       /\ search_mode' = TRUE
                  ELSE UNCHANGED <<before_search_state, current_questions,
                                   current_index, exam_mode, search_mode>>
               /\ call' = [name |-> "do_search"]
    /\ UNCHANGED <<fs, images, arg, questions, photo_dir>>

\* show_search_dialog.do_search; the dialog opens only when the store is
\* not empty
DoSearch ==
    /\ questions # <<>>
    /\ \E mode \in {"keyword", "chapter", "id"}, typed \in SessionQueries :
           LET search_text == strip(typed)
               results == IF search_text = <<>> THEN <<>>
                          ELSE search_results(mode, search_text)
           IN  /\ IF results # <<>>
                  THEN /\ before_search_state' =
                              IF ~search_mode
                              THEN <<[questions |-> current_questions,
                                      index |-> current_index]>>
                              ELSE before_search_state
                       /\ current_questions' = results
                       /\ current_index' = 0
                       /\ exam_mode' = FALSE
                       /\ search_mode' = TRUE
                  ELSE UNCHANGED <<before_search_state, current_questions,
                                   current_index, exam_mode, search_mode>>
               /\ call' = [name |-> "do_search"]
    /\ UNCHANGED <<fs, images, arg, questions, photo_dir>>

\* back_from_search, behind the button that is enabled in search mode
BackFromSearch ==
    /\ search_mode
    /\ IF search_mode /\ before_search_state # <<>>
       THEN /\ current_questions' = before_search_state[1].questions
            /\ current_index' = before_search_state[1].index
            /\ search_mode' = FALSE
            /\ UNCHANGED exam_mode
       ELSE IF questions # <<>>
            THEN /\ exam_mode' = FALSE
                 /\ search_mode' = FALSE
                 /\ current_questions' = questions
                 /\ current_index' = 0
            ELSE UNCHANGED <<current_questions, current_index, exam_mode, search_mode>>
    /\ call' = [name |-> "back_from_search"]
    /\ UNCHANGED <<fs, images, arg, questions, photo_dir, before_search_state>>

PrevQuestion ==
    /\ current_index' = IF current_index > 0 THEN current_index - 1 ELSE current_index
    /\ call' = [name |-> "prev_question"]
    /\ UNCHANGED <<fs, images, arg, questions, photo_dir, current_questions,
                   exam_mode, search_mode, before_search_state>>

\* next_question comparing with len(self.current_questions)
NextQuestion_past_end ==
    /\ \E submit \in BOOLEAN :
           IF current_index < Len(current_questions)
           THEN /\ current_index' = current_index + 1
                /\ UNCHANGED exam_mode
                /\ call' = [name |-> "next_question"]
           ELSE /\ UNCHANGED current_index
                /\ exam_mode' = IF exam_mode /\ submit THEN FALSE ELSE exam_mode
                /\ call' = [name |-> "next_question"]
    /\ UNCHANGED <<fs, images, arg, questions, photo_dir, current_questions,
                   search_mode, before_search_state>>

\* next_question; at the last Question of an exam the user is asked
\* whether to submit, and submit_exam ends the exam
NextQuestion ==
    /\ \E submit \in BOOLEAN :
           IF current_index < Len(current_questions) - 1
           THEN /\ current_index' = current_index + 1
                /\ UNCHANGED exam_mode
                /\ call' = [name |-> "next_question"]
           ELSE /\ UNCHANGED current_index
                /\ exam_mode' = IF exam_mode /\ submit THEN FALSE ELSE exam_mode
                /\ call' = [name |-> "next_question"]
    /\ UNCHANGED <<fs, images, arg, questions, photo_dir, current_questions,
                   search_mode, before_search_state>>

Next ==
    \/ ConfirmLoad
    \/ StartSequentialMode
    \/ ConfirmExam
    \/ DoSearch
    \/ BackFromSearch
    \/ PrevQuestion
    \/ NextQuestion

Spec == Init /\ [][Next]_vars

\* the file at path p is readable and none of its records has a [Q] value
YieldsNoQuestion(p) ==
    /\ p \in ReadablePaths
    /\ \A k \in 1..Len(arg[p].recs) : ~HasText(arg[p].recs[k], "Q")

\* C3: a load of a readable file that yields no Question, made while the
\* store holds Questions, returns False and leaves the question list of the
\* store as it was
C3_EmptyLoadKeepsStore ==
    [][ ( /\ call'.name = "confirm_load"
          /\ YieldsNoQuestion(call'.filepath)
          /\ questions # <<>> )
        => (~call'.ret /\ questions' = questions) ]_vars

\* C4: a load of a path that cannot be read returns False and leaves the
\* question list of the store as it was
C4_UnreadableKeepsStore ==
    [][ ( /\ call'.name = "confirm_load"
          /\ ~fs[call'.filepath].readable )
        => (~call'.ret /\ questions' = questions) ]_vars

\* a load of the unreadable path has failed while the store holds Questions
C4_Witness ==
    /\ call.name = "confirm_load"
    /\ ~fs[call.filepath].readable
    /\ ~call.ret
    /\ questions # <<>>

\* C18: in every state of the session the cursor is in bounds: the current
\* list is empty and current_index is 0, or current_index is a place of the
\* current list
C18_CursorInBounds ==
    \/ current_questions = <<>> /\ current_index = 0
    \/ 0 <= current_index /\ current_index < Len(current_questions)

\* a search started from the second Question of a list has put the cursor
\* on the only Question of its result
C18_Witness ==
    /\ search_mode
    /\ Len(current_questions) = 1 /\ current_index = 0
    /\ before_search_state # <<>>
    /\ before_search_state[1].index = 1

\* C19: exam_mode and search_mode are never both true, and after
\* back_from_search exam_mode is false, so that submit_exam returns at once
C19_ExamAndSearchExclusive ==
    /\ ~(exam_mode /\ search_mode)
    /\ call.name = "back_from_search" => ~exam_mode

\* back_from_search has restored the shuffled list of an exam, and the exam
\* is not resumed
C19_Witness ==
    /\ call.name = "back_from_search"
    /\ Len(questions) = 2
    /\ current_questions = <<questions[2], questions[1]>>
    /\ ~exam_mode /\ ~search_mode

\* C20: the search that enters search mode saves the list and the cursor
\* it found, nothing done while search mode lasts changes what was saved,
\* and back_from_search puts that list and that cursor back and leaves
\* search mode
C20_BackRestoresFirstState ==
    [][ /\ (~search_mode /\ search_mode') =>
               before_search_state' = <<[questions |-> current_questions,
                                         index |-> current_index]>>
        /\ (search_mode /\ search_mode') =>
               before_search_state' = before_search_state
        /\ (search_mode /\ call'.name = "back_from_search") =>
               /\ before_search_state # <<>>
               /\ current_questions' = before_search_state[1].questions
               /\ current_index' = before_search_state[1].index
               /\ ~search_mode' ]_vars

\* back_from_search has put back a two-Question list with the cursor on its
\* second Question, after a search whose result had one Question
C20_Witness ==
    /\ call.name = "back_from_search"
    /\ ~search_mode
    /\ before_search_state # <<>>
    /\ current_questions = before_search_state[1].questions
    /\ Len(current_questions) = 2
    /\ current_index = 1 /\ before_search_state[1].index = 1

====
